---- MODULE Spec2Model ----
(***************************************************************************)
(* State-machine model of vrt_writer.VRTWriter (src/vrt_writer/writer.py). *)
(*                                                                         *)
(* The Document (self.vrt) is a Python dict; it is modelled as a TLA+      *)
(* function whose DOMAIN is the set of keys present.  A repeatable element *)
(* (a Python list of dicts) is a sequence of such functions.  Attribute    *)
(* keys keep their "@" prefix and text content its "$" key, as in the code.*)
(***************************************************************************)
EXTENDS Integers, Sequences, FiniteSets, TLC

VARIABLES
    vrt,    \* self.vrt, the Document
    pre,    \* history: the Document as it was when the last call started
    call,   \* history: the last call, its name and arguments
    err,    \* history: the exception the last call raised, "none" if it returned
    ret,    \* history: the value the last call returned (None if it returns nothing)
    nops    \* number of calls made so far (bounds the exploration)

vars == <<vrt, pre, call, err, ret, nops>>

---------------------------------------------------------------------------
(* Python values *)

\* None, and a present optional value
None == <<>>
Some(v) == <<v>>

\* numbers whose Python type matters (int against float)
PyInt(n) == [type |-> "int", v |-> n]
PyFloat(n) == [type |-> "float", v |-> n]
PyStr(s) == [type |-> "str", s |-> s]
PyNone == [type |-> "NoneType"]

\* truthiness of an optional string: None and "" are falsy
TruthyStr(o) == o # None /\ o[1] # ""

\* truthiness of an optional int: None and 0 are falsy
TruthyInt(o) == o # None /\ o[1] # 0

\* dict() and a one-entry dict; {**a, **b} and dict.update are b @@ a
EmptyDict == <<>>

Min(S) == CHOOSE m \in S : \A n \in S : m <= n

---------------------------------------------------------------------------
(* Class attributes of VRTWriter *)

VRTDATASET_SUBCLASSES == {"VRTWarpedDataset", "VRTPansharpenedDataset"}

VRTRASTERBAND_SUBCLASSES == {"VRTRawRasterBand", "VRTDerivedRasterBand"}

REPEATABLE_ELEMENTS == {"Metadata", "VRTRasterBand", "Overview", "SimpleSource"}

VRTRASTERBAND_COLOR_INTERP ==
    {"Gray", "Palette", "Red", "Green", "Blue", "Alpha", "Hue", "Saturation",
     "Lightness", "Cyan", "Magenta", "Yellow", "Black", "Unknown"}

VRTRASTERBAND_PIX_FUNC ==
    {"real", "imag", "complex", "mod", "phase", "conj", "sum", "diff", "mul",
     "cmul", "inv", "intensity", "sqrt", "log10", "dB", "dB2amp", "dB2pow"}

\* REPEATABLE_ELEMENTS_KEY_FUNC[element](d)
REPEATABLE_ELEMENTS_KEY_FUNC(element, d) ==
    CASE element = "Metadata" -> d["@domain"]
      [] element = "VRTRasterBand" -> d["@band"]
      [] element = "Overview" -> d["SourceFilename"]
      [] element = "SimpleSource" -> d["SourceBand"]

---------------------------------------------------------------------------
(* update_element *)

\* The values of `mapping` that have the Python type of the element's merge
\* key.  `key in mapping.values()` compares the key with every value; a value
\* of another Python type (the MDI list against a domain string, the dataType
\* string against an int band index) never compares equal, so only these count.
\* For Overview and SimpleSource the key and all the values are dicts.
KeyComparableFields(element, mapping) ==
    CASE element = "Metadata" -> {"@domain"}
      [] element = "VRTRasterBand" -> {"@band"}
      [] OTHER -> DOMAIN mapping

\* key in mapping.values()
KeyInValues(element, key, mapping) ==
    \E k \in KeyComparableFields(element, mapping) : mapping[k] = key

\* optional_mapping with the falsy values dropped (values are optional strings)
FilterOptional(optional_mapping) ==
    [k \in {j \in DOMAIN optional_mapping : TruthyStr(optional_mapping[j])}
        |-> optional_mapping[k][1]]

\* The loop over itertools.groupby(node[element], key=KEY_FUNC[element]) from
\* position i on: one output entry per run of consecutive equal keys, the new
\* entry if the run's key is among mapping's values, else the run's first entry.
RECURSIVE GroupbyMerge(_, _, _, _, _)
GroupbyMerge(old, i, element, mapping, new) ==
    IF i > Len(old) THEN <<>>
    ELSE LET key == REPEATABLE_ELEMENTS_KEY_FUNC(element, old[i])
             rest == GroupbyMerge(old, i + 1, element, mapping, new)
         IN IF i > 1 /\ REPEATABLE_ELEMENTS_KEY_FUNC(element, old[i - 1]) = key
            THEN rest
            ELSE <<IF KeyInValues(element, key, mapping) THEN new ELSE old[i]>>
                 \o rest

\* the `touched` flag after the loop
Touched(old, element, mapping) ==
    \E i \in 1..Len(old) :
        KeyInValues(element, REPEATABLE_ELEMENTS_KEY_FUNC(element, old[i]), mapping)

\* a merge that drops the entries with the new entry's key and puts the new
\* entry at the end
RepeatableList_replaced_goes_last(node, element, mapping, new) ==
    IF element \in DOMAIN node
    THEN LET Kept(d) ==
                 ~KeyInValues(element, REPEATABLE_ELEMENTS_KEY_FUNC(element, d),
                              mapping)
         IN Append(SelectSeq(node[element], Kept), new)
    ELSE <<new>>

\* the list d built for a repeatable element
RepeatableList(node, element, mapping, new) ==
    IF element \in DOMAIN node
    THEN LET old == node[element]
             d == GroupbyMerge(old, 1, element, mapping, new)
         IN IF Len(d) = Len(old) /\ ~Touched(old, element, mapping)
            THEN Append(d, new)
            ELSE d
    ELSE <<new>>

\* update_element applied to one node (self.vrt or a band's dict)
UpdateNode(node, element, mapping, optional_mapping) ==
    LET new == FilterOptional(optional_mapping) @@ mapping
        d == IF element \in REPEATABLE_ELEMENTS
             THEN RepeatableList(node, element, mapping, new)
             ELSE new
    IN IF element = "VRTDataset"
       THEN d @@ node
       ELSE (element :> d) @@ node

\* update_element(element, mapping, optional_mapping, parent) on Document doc.
\* parent is None or Some(i), i the position in doc["VRTRasterBand"] of the band
\* dict the caller holds a reference to; `if parent:` is false for None and
\* for an empty dict.
update_element(doc, element, mapping, optional_mapping, parent) ==
    IF parent # None /\ DOMAIN doc["VRTRasterBand"][parent[1]] # {}
    THEN [doc EXCEPT !["VRTRasterBand"][parent[1]] =
              UpdateNode(@, element, mapping, optional_mapping)]
    ELSE UpdateNode(doc, element, mapping, optional_mapping)

\* get_band_element(band): the exception raised, or the position of the first
\* band entry whose @band equals band
get_band_element(doc, band) ==
    IF "VRTRasterBand" \notin DOMAIN doc
    THEN [err |-> "KeyError", idx |-> 0]
    ELSE LET bands == doc["VRTRasterBand"]
             hits == {i \in 1..Len(bands) : bands[i]["@band"] = band}
         IN IF hits = {} THEN [err |-> "StopIteration", idx |-> 0]
            ELSE IF DOMAIN bands[Min(hits)] = {}
                 THEN [err |-> "ValueError", idx |-> 0]
                 ELSE [err |-> "none", idx |-> Min(hits)]

---------------------------------------------------------------------------
(* The end of a call *)

Return(c, doc) ==
    /\ vrt' = doc
    /\ pre' = vrt
    /\ call' = c
    /\ err' = "none"
    /\ ret' = None
    /\ nops' = nops + 1

Raise(c, e) ==
    /\ vrt' = vrt
    /\ pre' = vrt
    /\ call' = c
    /\ err' = e
    /\ ret' = None
    /\ nops' = nops + 1

---------------------------------------------------------------------------
(* __init__ *)

Init ==
    /\ vrt = EmptyDict
    /\ pre = EmptyDict
    /\ call = [op |-> "__init__"]
    /\ err = "none"
    /\ ret = None
    /\ nops = 0

---------------------------------------------------------------------------
(* Operations *)

\* a mapping whose sizes are converted to int
DatasetMapping_int_sizes(xsize, ysize) ==
    ("@rasterXSize" :> PyInt(xsize.v)) @@ ("@rasterYSize" :> PyInt(ysize.v))

\* the dict add_vrtdataset hands to update_element as `mapping`
DatasetMapping(xsize, ysize) ==
    ("@rasterXSize" :> xsize) @@ ("@rasterYSize" :> ysize)

add_vrtdataset(xsize, ysize, subclass) ==
    LET c == [op |-> "add_vrtdataset", xsize |-> xsize, ysize |-> ysize,
              subclass |-> subclass]
    IN IF subclass # None /\ subclass[1] \notin VRTDATASET_SUBCLASSES
       THEN Raise(c, "ValueError")
       ELSE Return(c, update_element(vrt, "VRTDataset",
                                     DatasetMapping(xsize, ysize),
                                     "@subClass" :> subclass, None))

\* a clear() that drops the root attributes and keeps the child elements
clear_keeps_children ==
    Return([op |-> "clear"],
           [k \in DOMAIN vrt \ {"@rasterXSize", "@rasterYSize", "@subClass"}
               |-> vrt[k]])

clear ==
    Return([op |-> "clear"], EmptyDict)

\* ", ".join(map(str, items))
RECURSIVE JoinStr(_)
JoinStr(items) ==
    IF Len(items) = 0 THEN ""
    ELSE IF Len(items) = 1 THEN ToString(items[1])
    ELSE ToString(items[1]) \o ", " \o JoinStr(Tail(items))

\* an add_geotransform that refuses only the sequences shorter than six
add_geotransform_refuses_short(geotransform) ==
    LET c == [op |-> "add_geotransform", geotransform |-> geotransform]
    IN IF ~geotransform.sequence \/ Len(geotransform.items) < 6
       THEN Raise(c, "ValueError")
       ELSE Return(c, update_element(vrt, "GeoTransform",
                                     "$" :> JoinStr(geotransform.items),
                                     EmptyDict, None))

\* geotransform is [sequence |-> whether it is a collections.abc.Sequence,
\* items |-> its elements in order]
add_geotransform(geotransform) ==
    LET c == [op |-> "add_geotransform", geotransform |-> geotransform]
    IN IF ~geotransform.sequence \/ Len(geotransform.items) # 6
       THEN Raise(c, "ValueError")
       ELSE Return(c, update_element(vrt, "GeoTransform",
                                     "$" :> JoinStr(geotransform.items),
                                     EmptyDict, None))

\* [{"@key": key, "$": val} for key, val in items]
KeyValueList(items) ==
    [i \in 1..Len(items) |-> ("@key" :> items[i][1]) @@ ("$" :> items[i][2])]

\* the dict add_metadata hands to update_element as `mapping`
MetadataMapping(metadata, domain) ==
    ("MDI" :> KeyValueList(metadata.items))
    @@ ("@domain" :> IF TruthyStr(domain) THEN domain[1] ELSE "")

\* metadata is [dict |-> whether it is a dict, items |-> its (key, value) pairs
\* in order]; domain is an optional string; band an optional int
add_metadata(metadata, domain, band) ==
    LET c == [op |-> "add_metadata", metadata |-> metadata, domain |-> domain,
              band |-> band]
    IN IF ~metadata.dict THEN Raise(c, "ValueError")
       ELSE IF TruthyInt(band)
       THEN IF "VRTRasterBand" \notin DOMAIN vrt THEN Raise(c, "KeyError")
            ELSE LET bands == vrt["VRTRasterBand"]
                     hits == {i \in 1..Len(bands) : bands[i]["@band"] = band[1]}
                 IN IF Cardinality(hits) = 1
                    THEN Return(c, update_element(vrt, "Metadata",
                                    MetadataMapping(metadata, domain),
                                    EmptyDict, Some(Min(hits))))
                    ELSE Raise(c, "ValueError")
       ELSE Return(c, update_element(vrt, "Metadata",
                                     MetadataMapping(metadata, domain),
                                     EmptyDict, None))

\* the dict add_vrtrasterband hands to update_element as `mapping`
RasterBandMapping(band, dtype) ==
    ("@band" :> band) @@ ("@dataType" :> dtype)

\* an add_vrtrasterband that, for a band index already present, sets the
\* attributes on the existing entry and keeps its children
add_vrtrasterband_keeps_children(band, dtype, subclass) ==
    LET c == [op |-> "add_vrtrasterband", band |-> band, dtype |-> dtype,
              subclass |-> subclass]
        found == get_band_element(vrt, band)
    IN IF subclass # None /\ subclass[1] \notin VRTRASTERBAND_SUBCLASSES
       THEN Raise(c, "ValueError")
       ELSE IF found.err = "none"
       THEN Return(c, [vrt EXCEPT !["VRTRasterBand"][found.idx] =
                           FilterOptional("@subClass" :> subclass)
                           @@ RasterBandMapping(band, dtype) @@ @])
       ELSE Return(c, update_element(vrt, "VRTRasterBand",
                                     RasterBandMapping(band, dtype),
                                     "@subClass" :> subclass, None))

add_vrtrasterband(band, dtype, subclass) ==
    LET c == [op |-> "add_vrtrasterband", band |-> band, dtype |-> dtype,
              subclass |-> subclass]
    IN IF subclass # None /\ subclass[1] \notin VRTRASTERBAND_SUBCLASSES
       THEN Raise(c, "ValueError")
       ELSE Return(c, update_element(vrt, "VRTRasterBand",
                                     RasterBandMapping(band, dtype),
                                     "@subClass" :> subclass, None))

\* parent = self.get_band_element(band); self.update_element(element, mapping,
\* parent=parent): the common tail of the band-addressed operations
UpdateBand(c, band, element, mapping) ==
    LET found == get_band_element(vrt, band)
    IN IF found.err # "none" THEN Raise(c, found.err)
       ELSE Return(c, update_element(vrt, element, mapping, EmptyDict,
                                     Some(found.idx)))

add_pixelfunc(band, func) ==
    LET c == [op |-> "add_pixelfunc", band |-> band, func |-> func]
    IN IF func \notin VRTRASTERBAND_PIX_FUNC THEN Raise(c, "ValueError")
       ELSE UpdateBand(c, band, "PixelFunctionType", "$" :> func)

add_colorinterp(band, interp) ==
    LET c == [op |-> "add_colorinterp", band |-> band, interp |-> interp]
    IN IF interp \notin VRTRASTERBAND_COLOR_INTERP THEN Raise(c, "ValueError")
       ELSE UpdateBand(c, band, "ColorInterp", "$" :> interp)

\* nodata after the two conversions: a str becomes "nan", an int a float
NodataValue(nodata) ==
    CASE nodata.type = "str" -> PyStr("nan")
      [] nodata.type = "int" -> PyFloat(nodata.v)
      [] OTHER -> nodata

\* nodata is PyNone, PyInt(n), PyFloat(n) or PyStr(s)
add_nodata(band, nodata, hide) ==
    LET c == [op |-> "add_nodata", band |-> band, nodata |-> nodata,
              hide |-> hide]
        value == NodataValue(nodata)
        found == get_band_element(vrt, band)
    IN IF value.type \notin {"int", "float", "str"} THEN Raise(c, "ValueError")
       ELSE IF found.err # "none" THEN Raise(c, found.err)
       ELSE LET doc1 == update_element(vrt, "NoDataValue", "$" :> value,
                                       EmptyDict, Some(found.idx))
            IN Return(c, IF hide
                         THEN update_element(doc1, "HideNoDataValue", "$" :> 1,
                                             EmptyDict, Some(found.idx))
                         ELSE doc1)

\* {f"@c{i}": c for i, c in enumerate(color, start=1)}
ColorEntry(color) ==
    [k \in {"@c" \o ToString(i) : i \in 1..Len(color)} |->
        color[CHOOSE i \in 1..Len(color) : k = "@c" \o ToString(i)]]

\* the argument check of add_colortable: the exception raised, or "none".
\* colors is a sequence of tuples; colors[0] of an empty one is an IndexError.
ColorTableCheck(colors) ==
    IF Len(colors) = 0 THEN "IndexError"
    ELSE IF Len(colors[1]) \notin {3, 4} THEN "ValueError"
    ELSE "none"

add_colortable(band, colors) ==
    LET c == [op |-> "add_colortable", band |-> band, colors |-> colors]
        checked == ColorTableCheck(colors)
    IN IF checked # "none" THEN Raise(c, checked)
       ELSE UpdateBand(c, band, "ColorTable",
                       "Entry" :> [i \in 1..Len(colors) |-> ColorEntry(colors[i])])

add_description(band, desc) ==
    UpdateBand([op |-> "add_description", band |-> band, desc |-> desc],
               band, "Description", "$" :> desc)

\* the parent add_unittype hands to update_element: it looks the band up and
\* then calls update_element without parent=
UnitTypeParent(found) == None

add_unittype(band, unittype) ==
    LET c == [op |-> "add_unittype", band |-> band, unittype |-> unittype]
        found == get_band_element(vrt, band)
    IN IF unittype \notin {"m", "ft"} THEN Raise(c, "ValueError")
       ELSE IF found.err # "none" THEN Raise(c, found.err)
       ELSE Return(c, update_element(vrt, "UnitType", "$" :> unittype,
                                     EmptyDict, UnitTypeParent(found)))

add_offset(band, offset) ==
    UpdateBand([op |-> "add_offset", band |-> band, offset |-> offset],
               band, "Offset", "$" :> offset)

add_scale(band, scale) ==
    UpdateBand([op |-> "add_scale", band |-> band, scale |-> scale],
               band, "Scale", "$" :> scale)

\* the dict add_overview hands to update_element as `mapping`
OverviewMapping(source_filename, source_band, relative) ==
    ("SourceFilename" :> (("@relativeToVRT" :> IF relative THEN 1 ELSE 0)
                          @@ ("$" :> source_filename)))
    @@ ("SourceBand" :> ("$" :> ToString(source_band)))

add_overview(band, source_filename, source_band, relative) ==
    UpdateBand([op |-> "add_overview", band |-> band,
                source_filename |-> source_filename,
                source_band |-> source_band, relative |-> relative],
               band, "Overview",
               OverviewMapping(source_filename, source_band, relative))

\* any(...) over optional ints
AnyTruthy(fields) == \E i \in 1..Len(fields) : TruthyInt(fields[i])

\* the optional blocks of a source entry: each is present only if its
\* condition in add_source holds.  props is [xsize, ysize, dtype, block_xsize,
\* block_ysize], src_win and dst_win are [xoff, yoff, xsize, ysize], of optional
\* ints (dtype an optional string); open_options is None or the (key, value)
\* pairs of a dict.
SourceProperties(props) ==
    IF AnyTruthy(<<props.xsize, props.ysize, props.block_xsize,
                   props.block_ysize>>) \/ TruthyStr(props.dtype)
    THEN "SourceProperties" :> (("@RasterXSize" :> props.xsize)
                                @@ ("@RasterYSize" :> props.ysize)
                                @@ ("@DataType" :> props.dtype)
                                @@ ("@BlockXSize" :> props.block_xsize)
                                @@ ("@BlockYSize" :> props.block_ysize))
    ELSE EmptyDict

WindowRect(name, win) ==
    IF AnyTruthy(<<win.xoff, win.yoff, win.xsize, win.ysize>>)
    THEN name :> (("@xOff" :> win.xoff) @@ ("@yOff" :> win.yoff)
                  @@ ("@xSize" :> win.xsize) @@ ("@ySize" :> win.ysize))
    ELSE EmptyDict

OpenOptions(open_options) ==
    IF open_options # None /\ Len(open_options[1]) > 0
    THEN "OpenOptions" :> ("OOI" :> KeyValueList(open_options[1]))
    ELSE EmptyDict

\* the dict add_source hands to update_element as `mapping`
SourceMapping(source_filename, source_band, props, src_win, dst_win, relative, shared, open_options) ==
    OpenOptions(open_options)
    @@ WindowRect("DstRect", dst_win)
    @@ WindowRect("SrcRect", src_win)
    @@ SourceProperties(props)
    @@ ("SourceFilename" :> (("@relativeToVRT" :> IF relative THEN 1 ELSE 0)
                             @@ ("@shared" :> IF shared THEN "1" ELSE "0")
                             @@ ("$" :> source_filename)))
    @@ ("SourceBand" :> ("$" :> ToString(source_band)))

add_source(band, source_filename, source_band, type, props, src_win, dst_win, relative, shared, open_options) ==
    UpdateBand([op |-> "add_source", band |-> band,
                source_filename |-> source_filename,
                source_band |-> source_band, type |-> type, props |-> props,
                src_win |-> src_win, dst_win |-> dst_win,
                relative |-> relative, shared |-> shared,
                open_options |-> open_options],
               band, type \o "Source",
               SourceMapping(source_filename, source_band, props, src_win,
                             dst_win, relative, shared, open_options))

---------------------------------------------------------------------------
(* The schema encoder: self.schema.encode(self.vrt).  The schema            *)
(* (vrt_writer/schemas/gdalvrt.xsd) is not among the sources; what is       *)
(* modelled of it is what the specification and the tests state: the        *)
(* raster sizes are integers, and the empty Document is valid.              *)

SchemaConforms(doc) ==
    \A k \in {"@rasterXSize", "@rasterYSize"} \cap DOMAIN doc :
        doc[k].type = "int"

\* the name of an attribute key without its "@"
AttributeName(k) ==
    CASE k = "@rasterXSize" -> "rasterXSize"
      [] k = "@rasterYSize" -> "rasterYSize"
      [] k = "@subClass" -> "subClass"

RootAttributeKeys == {"@rasterXSize", "@rasterYSize", "@subClass"}

\* the text of an attribute value
AttributeText(k, v) == IF k = "@subClass" THEN v ELSE ToString(v.v)

\* the root element the encoder builds: the "@" keys become attributes with
\* text values, the other keys child elements
Encode(doc) ==
    IF SchemaConforms(doc)
    THEN [err |-> "none",
          xml |-> [tag |-> "VRTDataset",
                   attrib |-> {<<AttributeName(k), AttributeText(k, doc[k])>> :
                                  k \in RootAttributeKeys \cap DOMAIN doc},
                   children |-> [k \in DOMAIN doc \ RootAttributeKeys |-> doc[k]]]]
    ELSE [err |-> "XMLSchemaEncodeError", xml |-> None]

to_string ==
    LET c == [op |-> "to_string"]
        encoded == Encode(vrt)
    IN /\ vrt' = vrt
       /\ pre' = vrt
       /\ call' = c
       /\ err' = encoded.err
       /\ ret' = IF encoded.err = "none" THEN Some(encoded.xml) ELSE None
       /\ nops' = nops + 1

\* the is_valid property: True if the encode succeeds, False on
\* XMLSchemaEncodeError
is_valid ==
    LET c == [op |-> "is_valid"]
        encoded == Encode(vrt)
    IN /\ vrt' = vrt
       /\ pre' = vrt
       /\ call' = c
       /\ err' = "none"
       /\ ret' = Some(encoded.err # "XMLSchemaEncodeError")
       /\ nops' = nops + 1

---------------------------------------------------------------------------
(* Arguments the calls are made with *)

\* the most calls a run makes, under each specification
MaxOps == 3
MaxMergeOps == 4
MaxMetadataOps == 5

\* band indices; 0 is an index like any other for add_vrtrasterband, and falsy
BandIndices == {0, 1, 2}

Subclasses(valid) == {None, Some(valid), Some("Not" \o valid)}

Sizes == {PyInt(8), PyFloat(8)}

GeoTransforms ==
    {[sequence |-> TRUE, items |-> <<>>],
     [sequence |-> TRUE, items |-> <<0, 1, 0, 9, 0, 1>>],
     [sequence |-> TRUE, items |-> <<0, 1, 0, 9, 0, 1, 0>>],
     [sequence |-> FALSE, items |-> <<0, 1, 0, 9, 0, 1>>]}

Metadatas ==
    {[dict |-> TRUE, items |-> <<<<"k", "v1">>>>],
     [dict |-> TRUE, items |-> <<<<"k", "v2">>>>]}

NotADict == [dict |-> FALSE, items |-> <<>>]

Domains == {None, Some(""), Some("a"), Some("b")}

Nodatas == {PyNone, PyInt(0), PyStr("x")}

Colors == {<<>>, <<<<1, 2, 3>>>>, <<<<1, 2, 3, 4>>, <<5, 6>>>>, <<<<1, 2>>>>}

Filenames == {"a.tif", "b.tif"}

SourceBands == {1, 2}

NoProps ==
    [xsize |-> None, ysize |-> None, dtype |-> None, block_xsize |-> None,
     block_ysize |-> None]

NoWindow == [xoff |-> None, yoff |-> None, xsize |-> None, ysize |-> None]

---------------------------------------------------------------------------
(* Specifications *)

\* every operation, from an empty builder
Next ==
    \/ \E xsize \in Sizes, subclass \in Subclasses("VRTWarpedDataset") :
           nops < MaxOps /\ add_vrtdataset(xsize, PyInt(4), subclass)
    \/ \E geotransform \in GeoTransforms :
           nops < MaxOps /\ add_geotransform(geotransform)
    \/ \E metadata \in Metadatas \cup {NotADict},
          band \in {None} \cup {Some(b) : b \in BandIndices} :
           nops < MaxOps /\ add_metadata(metadata, Some("a"), band)
    \/ \E band \in BandIndices, subclass \in Subclasses("VRTRawRasterBand") :
           nops < MaxOps /\ add_vrtrasterband(band, "Byte", subclass)
    \/ \E band \in BandIndices, func \in {"dB", "abs"} :
           nops < MaxOps /\ add_pixelfunc(band, func)
    \/ \E band \in BandIndices, interp \in {"Gray", "Grey"} :
           nops < MaxOps /\ add_colorinterp(band, interp)
    \/ \E band \in BandIndices, nodata \in Nodatas, hide \in BOOLEAN :
           nops < MaxOps /\ add_nodata(band, nodata, hide)
    \/ \E band \in BandIndices, colors \in Colors :
           nops < MaxOps /\ add_colortable(band, colors)
    \/ \E band \in BandIndices :
           nops < MaxOps /\ add_description(band, "elevation")
    \/ \E band \in BandIndices, unittype \in {"m", "ft", "yd"} :
           nops < MaxOps /\ add_unittype(band, unittype)
    \/ \E band \in BandIndices : nops < MaxOps /\ add_offset(band, 0)
    \/ \E band \in BandIndices : nops < MaxOps /\ add_scale(band, 1)
    \/ \E band \in BandIndices, relative \in BOOLEAN :
           nops < MaxOps /\ add_overview(band, "a.tif", 1, relative)
    \/ \E band \in BandIndices, type \in {"Simple", "Complex"} :
           nops < MaxOps
           /\ add_source(band, "a.tif", 1, type, NoProps, NoWindow, NoWindow,
                         FALSE, TRUE, None)
    \/ nops < MaxOps /\ to_string
    \/ nops < MaxOps /\ is_valid
    \/ nops < MaxOps /\ clear

Spec == Init /\ [][Next]_vars

\* the operations that merge into repeatable lists
NextMerge ==
    \/ \E band \in {1, 2} :
           nops < MaxMergeOps /\ add_vrtrasterband(band, "Byte", None)
    \/ \E metadata \in Metadatas, domain \in Domains :
           nops < MaxMergeOps /\ add_metadata(metadata, domain, None)
    \/ \E band \in {1, 2}, source_filename \in Filenames,
          source_band \in SourceBands, relative \in BOOLEAN :
           nops < MaxMergeOps
           /\ add_overview(band, source_filename, source_band, relative)
    \/ \E band \in {1, 2}, source_filename \in Filenames,
          source_band \in SourceBands :
           nops < MaxMergeOps
           /\ add_source(band, source_filename, source_band, "Simple", NoProps,
                         NoWindow, NoWindow, FALSE, TRUE, None)
    \/ nops < MaxMergeOps /\ clear

SpecMerge == Init /\ [][NextMerge]_vars

\* bands and metadata, at the root and under bands
NextMetadata ==
    \/ \E band \in BandIndices :
           nops < MaxMetadataOps /\ add_vrtrasterband(band, "Byte", None)
    \/ \E metadata \in Metadatas, domain \in Domains,
          band \in {None} \cup {Some(b) : b \in BandIndices} :
           nops < MaxMetadataOps /\ add_metadata(metadata, domain, band)
    \/ nops < MaxMetadataOps /\ clear

SpecMetadata == Init /\ [][NextMetadata]_vars

\* windows and properties given to add_source; an offset of 0 is a number
Windows ==
    {NoWindow,
     [xoff |-> Some(0), yoff |-> None, xsize |-> None, ysize |-> None],
     [xoff |-> None, yoff |-> None, xsize |-> Some(8), ysize |-> None],
     [xoff |-> Some(0), yoff |-> Some(0), xsize |-> Some(8), ysize |-> Some(8)]}

SomeProps ==
    [xsize |-> Some(8), ysize |-> Some(8), dtype |-> Some("Byte"),
     block_xsize |-> None, block_ysize |-> None]

MaxSourceOps == 3

\* bands and their sources, with source and destination windows
NextSource ==
    \/ \E band \in {1, 2} :
           nops < MaxSourceOps /\ add_vrtrasterband(band, "Byte", None)
    \/ \E band \in {1, 2}, source_band \in SourceBands,
          type \in {"Simple", "Complex"}, props \in {NoProps, SomeProps},
          src_win \in Windows, dst_win \in Windows,
          open_options \in {None, Some(<<<<"NUM_THREADS", "2">>>>)} :
           nops < MaxSourceOps
           /\ add_source(band, "a.tif", source_band, type, props, src_win,
                         dst_win, TRUE, FALSE, open_options)
    \/ nops < MaxSourceOps /\ clear

SpecSource == Init /\ [][NextSource]_vars

MaxBandOps == 5

\* bands added and added again, the children attached to them, and
\* root-level elements
NextBand ==
    \/ \E band \in {1, 2}, dtype \in {"Byte", "Float32"},
          subclass \in {None, Some("VRTDerivedRasterBand")} :
           nops < MaxBandOps /\ add_vrtrasterband(band, dtype, subclass)
    \/ \E subclass \in {None, Some("VRTWarpedDataset")} :
           nops < MaxBandOps /\ add_vrtdataset(PyInt(8), PyInt(4), subclass)
    \/ \E band \in {None, Some(1), Some(2)} :
           nops < MaxBandOps
           /\ add_metadata([dict |-> TRUE, items |-> <<<<"k", "v1">>>>], None,
                           band)
    \/ \E band \in {1, 2} : nops < MaxBandOps /\ add_pixelfunc(band, "dB")
    \/ \E band \in {1, 2} :
           nops < MaxBandOps /\ add_nodata(band, PyInt(0), TRUE)
    \/ \E band \in {1, 2} :
           nops < MaxBandOps /\ add_colortable(band, <<<<1, 2, 3>>>>)
    \/ \E band \in {1, 2} :
           nops < MaxBandOps /\ add_overview(band, "a.tif", 1, FALSE)
    \/ \E band \in {1, 2}, type \in {"Simple", "Complex"} :
           nops < MaxBandOps
           /\ add_source(band, "a.tif", 1, type, NoProps, NoWindow, NoWindow,
                         FALSE, TRUE, None)

SpecBand == Init /\ [][NextBand]_vars

---------------------------------------------------------------------------
(* Reading a Document *)

\* the list stored under a repeatable element of a node, empty if absent
ListOf(node, element) ==
    IF element \in DOMAIN node THEN node[element] ELSE <<>>

\* the band entries of a Document
BandsOf(doc) == ListOf(doc, "VRTRasterBand")

\* whether a band entry with this index exists
HasBand(doc, band) ==
    \E i \in 1..Len(BandsOf(doc)) : BandsOf(doc)[i]["@band"] = band

\* no two entries of the list have the same value of K
NoTwoAlike(list, K(_)) ==
    \A i, j \in 1..Len(list) : i # j => K(list[i]) # K(list[j])

BandIndexOf(d) == d["@band"]
DomainOf(d) == d["@domain"]
FilenameOf(d) == d["SourceFilename"]["$"]
FilenameAndBandOf(d) == <<d["SourceFilename"]["$"], d["SourceBand"]["$"]>>

\* new is old with entry put at the positions in hits, or appended if there
\* are none; every other entry is the same and at the same position
MergedInPlace(old, new, hits, IsEntry(_)) ==
    IF hits # {}
    THEN /\ Len(new) = Len(old)
         /\ \A j \in 1..Len(old) :
                IF j \in hits THEN IsEntry(new[j]) ELSE new[j] = old[j]
    ELSE /\ Len(new) = Len(old) + 1
         /\ \A j \in 1..Len(old) : new[j] = old[j]
         /\ IsEntry(new[Len(new)])

---------------------------------------------------------------------------
(* Claims *)

\* C1: in every reachable state no repeatable list holds two entries with the
\* same merge key: no two bands with the same band index, no two Metadata
\* entries (at the root and under each band) with the same domain, no two
\* Overview entries of a band with the same source filename text, no two
\* SimpleSource entries of a band with the same (source filename, source
\* band) pair.
C1_NoTwoEntriesWithOneMergeKey ==
    /\ NoTwoAlike(BandsOf(vrt), BandIndexOf)
    /\ NoTwoAlike(ListOf(vrt, "Metadata"), DomainOf)
    /\ \A i \in 1..Len(BandsOf(vrt)) :
           /\ NoTwoAlike(ListOf(BandsOf(vrt)[i], "Metadata"), DomainOf)
           /\ NoTwoAlike(ListOf(BandsOf(vrt)[i], "Overview"), FilenameOf)
           /\ NoTwoAlike(ListOf(BandsOf(vrt)[i], "SimpleSource"),
                         FilenameAndBandOf)

\* C1, the part the code keeps: the lists of bands, Metadata and SimpleSource
\* have no two entries with one merge key, and no two Overview entries of a
\* band have the same source filename with the same relative flag.
C1_KeyFunctionValuesDiffer ==
    /\ NoTwoAlike(BandsOf(vrt), BandIndexOf)
    /\ NoTwoAlike(ListOf(vrt, "Metadata"), DomainOf)
    /\ \A i \in 1..Len(BandsOf(vrt)) :
           /\ NoTwoAlike(ListOf(BandsOf(vrt)[i], "Metadata"), DomainOf)
           /\ \A j, k \in 1..Len(ListOf(BandsOf(vrt)[i], "Overview")) :
                  j # k => BandsOf(vrt)[i]["Overview"][j]["SourceFilename"]
                           # BandsOf(vrt)[i]["Overview"][k]["SourceFilename"]
           /\ NoTwoAlike(ListOf(BandsOf(vrt)[i], "SimpleSource"),
                         FilenameAndBandOf)

\* C2: a successful add_source of kind Simple replaces an existing
\* SimpleSource entry of the band exactly if that entry has the same source
\* filename and the same source band, at that entry's position and with the
\* sibling sources unchanged; otherwise the new entry is appended and every
\* existing source entry is kept.
C2_SourceReplacedByFilenameAndBand ==
    (call.op = "add_source" /\ call.type = "Simple" /\ err = "none") =>
        LET i == CHOOSE i \in 1..Len(BandsOf(pre)) :
                     BandsOf(pre)[i]["@band"] = call.band
            old == ListOf(BandsOf(pre)[i], "SimpleSource")
            new == ListOf(BandsOf(vrt)[i], "SimpleSource")
            key == <<call.source_filename, ToString(call.source_band)>>
            hits == {j \in 1..Len(old) : FilenameAndBandOf(old[j]) = key}
            IsEntry(d) == FilenameAndBandOf(d) = key
        IN MergedInPlace(old, new, hits, IsEntry)

\* C3: a successful add_metadata changes exactly one Metadata list (the
\* root's or one band's): if the domain (the empty string by default) is
\* already present, the list keeps its length, the entry of that domain holds
\* the content of this call at its old position and the entries of the other
\* domains are unchanged and in the same order; if it is not, one entry is
\* appended at the end.
MetadataNodes(doc) == {0} \cup (1..Len(BandsOf(doc)))

MetadataNode(doc, n) == IF n = 0 THEN doc ELSE BandsOf(doc)[n]

C3_MetadataUpdatedInPlace ==
    (call.op = "add_metadata" /\ err = "none") =>
        LET domain == IF call.domain = None THEN "" ELSE call.domain[1]
            IsEntry(d) ==
                /\ d["@domain"] = domain
                /\ Len(d["MDI"]) = Len(call.metadata.items)
                /\ \A x \in 1..Len(d["MDI"]) :
                       /\ d["MDI"][x]["@key"] = call.metadata.items[x][1]
                       /\ d["MDI"][x]["$"] = call.metadata.items[x][2]
        IN /\ MetadataNodes(vrt) = MetadataNodes(pre)
           /\ \E n \in MetadataNodes(pre) :
                  LET old == ListOf(MetadataNode(pre, n), "Metadata")
                      new == ListOf(MetadataNode(vrt, n), "Metadata")
                      hits == {j \in 1..Len(old) : old[j]["@domain"] = domain}
                  IN /\ MergedInPlace(old, new, hits, IsEntry)
                     /\ \A o \in MetadataNodes(pre) \ {n} :
                            ListOf(MetadataNode(vrt, o), "Metadata")
                            = ListOf(MetadataNode(pre, o), "Metadata")

\* C3, its case: a band's Metadata list of three domains whose middle entry
\* is replaced by one of other content
C3_Witness ==
    /\ call.op = "add_metadata"
    /\ err = "none"
    /\ \E n \in 1..Len(BandsOf(pre)) :
           LET old == ListOf(BandsOf(pre)[n], "Metadata")
               new == ListOf(BandsOf(vrt)[n], "Metadata")
           IN /\ Len(old) = 3
              /\ Len(new) = 3
              /\ new[2] # old[2]
              /\ new[2]["@domain"] = old[2]["@domain"]

\* C4: clear() leaves the Document of a freshly constructed builder, the
\* empty one, whatever calls came before; to_string() on that Document
\* returns the minimal empty VRTDataset element.
MinimalElement ==
    [tag |-> "VRTDataset", attrib |-> {}, children |-> EmptyDict]

C4_ClearGivesFreshDocument ==
    /\ call.op = "clear" => (err = "none" /\ vrt = EmptyDict)
    /\ (call.op = "to_string" /\ pre = EmptyDict) =>
           (err = "none" /\ ret = Some(MinimalElement))

\* C4, its case: clear() called on a Document that holds root attributes and
\* bands
C4_Witness ==
    /\ call.op = "clear"
    /\ "@rasterXSize" \in DOMAIN pre
    /\ Len(BandsOf(pre)) > 0

\* C5: a call with an invalid argument raises ValueError and leaves the
\* Document as it was, in any state: add_vrtdataset and add_vrtrasterband
\* with a subclass outside their sets, add_geotransform with a sequence whose
\* length is not six, add_pixelfunc with an unsupported function,
\* add_colorinterp with an unknown role, add_unittype outside {m, ft}.
InvalidArgumentCall ==
    \/ /\ call.op = "add_vrtdataset"
       /\ call.subclass # None
       /\ call.subclass[1] \notin {"VRTWarpedDataset", "VRTPansharpenedDataset"}
    \/ /\ call.op = "add_vrtrasterband"
       /\ call.subclass # None
       /\ call.subclass[1] \notin {"VRTRawRasterBand", "VRTDerivedRasterBand"}
    \/ /\ call.op = "add_geotransform"
       /\ call.geotransform.sequence
       /\ Len(call.geotransform.items) # 6
    \/ call.op = "add_pixelfunc" /\ call.func \notin VRTRASTERBAND_PIX_FUNC
    \/ call.op = "add_colorinterp" /\ call.interp \notin VRTRASTERBAND_COLOR_INTERP
    \/ call.op = "add_unittype" /\ call.unittype \notin {"m", "ft"}

C5_InvalidArgumentLeavesDocument ==
    InvalidArgumentCall => (err = "ValueError" /\ vrt = pre)

\* C5, its case: a geotransform of seven values given to a builder whose
\* Document is not empty
C5_Witness ==
    /\ call.op = "add_geotransform"
    /\ call.geotransform.sequence
    /\ Len(call.geotransform.items) = 7
    /\ pre # EmptyDict
    /\ err = "ValueError"

\* C6: a band-addressed operation called with a band index for which no band
\* entry exists fails with an error and leaves the Document unmodified,
\* whether other bands exist or none.
BandAddressedOps ==
    {"add_pixelfunc", "add_colorinterp", "add_nodata", "add_colortable",
     "add_description", "add_unittype", "add_offset", "add_scale",
     "add_overview", "add_source"}

AddressesMissingBand ==
    \/ call.op \in BandAddressedOps /\ ~HasBand(pre, call.band)
    \/ /\ call.op = "add_metadata"
       /\ call.band # None
       /\ ~HasBand(pre, call.band[1])

C6_MissingBandFails ==
    AddressesMissingBand => (err # "none" /\ vrt = pre)

\* C6, the part the code keeps: the same for every band index but 0 given to
\* add_metadata
C6_MissingNonzeroBandFails ==
    (AddressesMissingBand /\ ~(call.op = "add_metadata" /\ call.band = Some(0)))
        => (err # "none" /\ vrt = pre)

\* C7: validation against the schema is left to to_string and is_valid.
\* add_vrtdataset with a valid or no subclass succeeds and stores the sizes
\* as given (a float stays a float); only to_string ever fails with a
\* schema-validation error; on a Document with a float size is_valid returns
\* False and to_string raises XMLSchemaEncodeError; is_valid returns True
\* exactly when to_string on the same Document succeeds; neither changes the
\* Document.
HasFloatSize(doc) ==
    \E k \in {"@rasterXSize", "@rasterYSize"} \cap DOMAIN doc :
        doc[k].type = "float"

C7_ValidationDeferred ==
    /\ (call.op = "add_vrtdataset" /\ ~InvalidArgumentCall) =>
           /\ err = "none"
           /\ vrt["@rasterXSize"] = call.xsize
           /\ vrt["@rasterYSize"] = call.ysize
    /\ err = "XMLSchemaEncodeError" => call.op = "to_string"
    /\ call.op \in {"to_string", "is_valid"} => vrt = pre
    /\ (call.op = "is_valid" /\ HasFloatSize(pre)) => ret = Some(FALSE)
    /\ (call.op = "to_string" /\ HasFloatSize(pre)) =>
           err = "XMLSchemaEncodeError"
    /\ call.op = "is_valid" =>
           (err = "none" /\ (ret = Some(TRUE) <=> Encode(vrt).err = "none"))
    /\ call.op = "to_string" => (err = "none" <=> Encode(vrt).err = "none")

\* C7, its case: is_valid asked of a Document to which add_vrtdataset gave a
\* float xsize
C7_Witness ==
    /\ call.op = "is_valid"
    /\ "@rasterXSize" \in DOMAIN pre
    /\ pre["@rasterXSize"] = PyFloat(8)
    /\ ret = Some(FALSE)

\* C8: after a successful add_vrtdataset without subclass the root carries
\* rasterXSize = xsize, rasterYSize = ysize and no subClass attribute,
\* whatever came before.
C8_DatasetWithoutSubclass ==
    (call.op = "add_vrtdataset" /\ err = "none" /\ call.subclass = None) =>
        /\ vrt["@rasterXSize"] = call.xsize
        /\ vrt["@rasterYSize"] = call.ysize
        /\ "@subClass" \notin DOMAIN vrt

\* C8, the part the code keeps: the sizes are those of the call, and the
\* subClass attribute is the one the Document had before
C8_DatasetKeepsEarlierSubclass ==
    (call.op = "add_vrtdataset" /\ err = "none" /\ call.subclass = None) =>
        /\ vrt["@rasterXSize"] = call.xsize
        /\ vrt["@rasterYSize"] = call.ysize
        /\ "@subClass" \in DOMAIN vrt <=> "@subClass" \in DOMAIN pre

\* C9: add_colortable on an existing band fails and leaves the Document
\* unmodified whenever colors is empty or holds, at any position, a tuple
\* whose length is neither 3 nor 4, and succeeds otherwise.  (The failure is
\* stated as any error: the kind of error is not what the code breaks.)
BadColors(colors) ==
    Len(colors) = 0 \/ \E i \in 1..Len(colors) : Len(colors[i]) \notin {3, 4}

C9_ColorTableChecksEveryTuple ==
    (call.op = "add_colortable" /\ HasBand(pre, call.band)) =>
        IF BadColors(call.colors)
        THEN err # "none" /\ vrt = pre
        ELSE err = "none"

\* C10: add_description, add_unittype, add_offset and add_scale on an existing
\* band store their value as a child of that band's entry and change nothing
\* else: the root-level children and the other bands' entries are the same
\* before and after.
SingleValueOps ==
    {"add_description", "add_unittype", "add_offset", "add_scale"}

SingleValueElement ==
    CASE call.op = "add_description" -> "Description"
      [] call.op = "add_unittype" -> "UnitType"
      [] call.op = "add_offset" -> "Offset"
      [] call.op = "add_scale" -> "Scale"

SingleValueStored(node) ==
    /\ SingleValueElement \in DOMAIN node
    /\ CASE call.op = "add_description" -> node["Description"]["$"] = call.desc
         [] call.op = "add_unittype" -> node["UnitType"]["$"] = call.unittype
         [] call.op = "add_offset" -> node["Offset"]["$"] = call.offset
         [] call.op = "add_scale" -> node["Scale"]["$"] = call.scale

SingleValueFrame ==
    LET i == CHOOSE i \in 1..Len(BandsOf(pre)) :
                 BandsOf(pre)[i]["@band"] = call.band
    IN /\ DOMAIN vrt = DOMAIN pre
       /\ \A k \in DOMAIN pre \ {"VRTRasterBand"} : vrt[k] = pre[k]
       /\ Len(BandsOf(vrt)) = Len(BandsOf(pre))
       /\ \A j \in 1..Len(BandsOf(pre)) : j # i => BandsOf(vrt)[j] = BandsOf(pre)[j]
       /\ SingleValueStored(BandsOf(vrt)[i])
       /\ \A k \in DOMAIN BandsOf(pre)[i] \ {SingleValueElement} :
              /\ k \in DOMAIN BandsOf(vrt)[i]
              /\ BandsOf(vrt)[i][k] = BandsOf(pre)[i][k]

C10_SingleValueUnderBand ==
    (call.op \in SingleValueOps /\ err = "none") => SingleValueFrame

\* C10, the part the code keeps: the same for add_description, add_offset
\* and add_scale
C10_SingleValueUnderBandButUnitType ==
    (call.op \in SingleValueOps \ {"add_unittype"} /\ err = "none")
        => SingleValueFrame

\* C11: in the entry add_source builds, SrcRect is present exactly if at
\* least one of the four source-window fields is not None, and DstRect
\* exactly if at least one of the four destination-window fields is not
\* None; the number 0 is not None.
SourceEntryBuilt ==
    LET band == BandsOf(vrt)[CHOOSE i \in 1..Len(BandsOf(vrt)) :
                                 BandsOf(vrt)[i]["@band"] = call.band]
    IN IF call.type = "Simple"
       THEN band["SimpleSource"][
                CHOOSE j \in 1..Len(band["SimpleSource"]) :
                    band["SimpleSource"][j]["SourceBand"]["$"]
                    = ToString(call.source_band)]
       ELSE band[call.type \o "Source"]

SomeFieldGiven(win) ==
    win.xoff # None \/ win.yoff # None \/ win.xsize # None \/ win.ysize # None

SomeFieldTruthy(win) ==
    \/ win.xoff # None /\ win.xoff # Some(0)
    \/ win.yoff # None /\ win.yoff # Some(0)
    \/ win.xsize # None /\ win.xsize # Some(0)
    \/ win.ysize # None /\ win.ysize # Some(0)

C11_WindowBlockIffFieldGiven ==
    (call.op = "add_source" /\ err = "none") =>
        /\ "SrcRect" \in DOMAIN SourceEntryBuilt <=> SomeFieldGiven(call.src_win)
        /\ "DstRect" \in DOMAIN SourceEntryBuilt <=> SomeFieldGiven(call.dst_win)

\* C11, the part the code keeps: each block is present exactly if one of its
\* four fields is a number other than 0, and then holds the four fields as
\* given
C11_WindowBlockIffFieldNonzero ==
    (call.op = "add_source" /\ err = "none") =>
        /\ "SrcRect" \in DOMAIN SourceEntryBuilt <=> SomeFieldTruthy(call.src_win)
        /\ "DstRect" \in DOMAIN SourceEntryBuilt <=> SomeFieldTruthy(call.dst_win)
        /\ "SrcRect" \in DOMAIN SourceEntryBuilt =>
               /\ SourceEntryBuilt["SrcRect"]["@xOff"] = call.src_win.xoff
               /\ SourceEntryBuilt["SrcRect"]["@yOff"] = call.src_win.yoff
               /\ SourceEntryBuilt["SrcRect"]["@xSize"] = call.src_win.xsize
               /\ SourceEntryBuilt["SrcRect"]["@ySize"] = call.src_win.ysize

\* C12: add_vrtrasterband with a band index that already exists puts, at the
\* position of the old entry, an entry that holds only the band index, the
\* data type and the subclass if one is given, so that every child of the old
\* entry is gone; the entries of the other bands and the root-level elements
\* are unchanged.
C12_BandReplacedWhole ==
    (call.op = "add_vrtrasterband" /\ err = "none" /\ HasBand(pre, call.band)) =>
        LET i == CHOOSE i \in 1..Len(BandsOf(pre)) :
                     BandsOf(pre)[i]["@band"] = call.band
            entry == BandsOf(vrt)[i]
        IN /\ Len(BandsOf(vrt)) = Len(BandsOf(pre))
           /\ DOMAIN entry = {"@band", "@dataType"}
                  \cup (IF call.subclass = None THEN {} ELSE {"@subClass"})
           /\ entry["@band"] = call.band
           /\ entry["@dataType"] = call.dtype
           /\ call.subclass # None => entry["@subClass"] = call.subclass[1]
           /\ \A j \in 1..Len(BandsOf(pre)) :
                  j # i => BandsOf(vrt)[j] = BandsOf(pre)[j]
           /\ DOMAIN vrt = DOMAIN pre
           /\ \A k \in DOMAIN pre \ {"VRTRasterBand"} : vrt[k] = pre[k]

\* C12, its case: the band added again is the first of two and had a child
\* element, and the other band has one too
C12_Witness ==
    /\ call.op = "add_vrtrasterband"
    /\ err = "none"
    /\ Len(BandsOf(pre)) = 2
    /\ BandsOf(pre)[1]["@band"] = call.band
    /\ DOMAIN BandsOf(pre)[1] \ {"@band", "@dataType", "@subClass"} # {}
    /\ DOMAIN BandsOf(pre)[2] \ {"@band", "@dataType", "@subClass"} # {}

====
